---- MODULE Spec2Model ----
(***************************************************************************)
(* A model of iir (src/iir.py): the column-selecting exponential-moving-   *)
(* average stream transformer of apirek/plotutils.                         *)
(*                                                                         *)
(* Python values are modelled as follows.                                  *)
(*   - An optional value is None (the empty tuple) or Some(x) (a 1-tuple). *)
(*   - A selector token is the sequence of its characters.                 *)
(*   - A float is a record: a finite value is the exact fraction num/den   *)
(*     in lowest terms, and the two infinities and NaN are values of their *)
(*     own that follow the IEEE-754 rules.  Rounding and overflow of       *)
(*     finite doubles are not modelled.                                    *)
(*   - Python lists are 0-based, TLA+ sequences 1-based: fields[i] of the  *)
(*     source is fields[i + 1] here, and index lists keep Python's         *)
(*     0-based numbers.                                                    *)
(***************************************************************************)
EXTENDS Integers, Sequences, FiniteSets, TLC

----------------------------------------------------------------------------
(* Bounds of the model. *)

\* most input lines read from standard input in one run
MaxLines == 2
\* most fields on an input line of the smoothing runs
MaxWidth == 2
\* largest window -n of a run (the smallest is -1)
MaxNum == 2
\* most characters of a selector token
MaxTokLen == 3
\* most fields on an input line of the selector runs
MaxSelWidth == 5
\* most -f tokens of a selector-list run
MaxTokens == 2

(* Program constants. *)

\* sys.exit(32) # EPIPE
EPIPE == 32
\* exit status of the interpreter when flushing sys.stdout fails at exit
FlushFailedStatus == 120

----------------------------------------------------------------------------
(* Optional values. *)

None == <<>>
Some(x) == <<x>>
Get(o) == o[1]

Min(a, b) == IF a <= b THEN a ELSE b
Abs(a) == IF a < 0 THEN 0 - a ELSE a
Sign(a) == IF a < 0 THEN 0 - 1 ELSE IF a = 0 THEN 0 ELSE 1

RECURSIVE Gcd(_, _)
Gcd(a, b) == IF b = 0 THEN a ELSE Gcd(b, a % b)

----------------------------------------------------------------------------
(* Floats. *)

NaN == [k |-> "nan", num |-> 0, den |-> 1]
Inf(s) == [k |-> "inf", num |-> s, den |-> 1]
\* the finite value a/b (b # 0), in lowest terms with a positive denominator
Fin(a, b) ==
    LET g == Gcd(Abs(a), Abs(b))
        s == Sign(b)
    IN  [k |-> "fin", num |-> (s * a) \div g, den |-> Abs(b) \div g]

IsNaN(x) == x.k = "nan"
IsFinite(x) == x.k = "fin"

\* float * int
FMulInt(x, m) ==
    CASE x.k = "nan" -> NaN
      [] x.k = "inf" -> IF m = 0 THEN NaN ELSE Inf(x.num * Sign(m))
      [] OTHER       -> Fin(x.num * m, x.den)

\* float + float
FAdd(x, y) ==
    CASE x.k = "nan" \/ y.k = "nan" -> NaN
      [] x.k = "inf" /\ y.k = "inf" -> IF x.num = y.num THEN x ELSE NaN
      [] x.k = "inf"                -> x
      [] y.k = "inf"                -> y
      [] OTHER -> Fin(x.num * y.den + y.num * x.den, x.den * y.den)

FNeg(x) == IF x.k = "nan" THEN NaN ELSE [x EXCEPT !.num = 0 - x.num]

\* float - float
FSub(x, y) == FAdd(x, FNeg(y))

\* float / int, for m # 0 (m = 0 raises ZeroDivisionError)
FDivInt(x, m) ==
    CASE x.k = "nan" -> NaN
      [] x.k = "inf" -> Inf(x.num * Sign(m))
      [] OTHER       -> Fin(x.num, x.den * m)

----------------------------------------------------------------------------
(* Selector tokens: the strings argparse hands to type=_slice (any string
   can be given as --field=TOKEN), as sequences of characters. *)

Digits == {"0", "1", "2", "3"}
Chars == Digits \cup {"-", ":"}

DigitVal(c) == CASE c = "0" -> 0 [] c = "1" -> 1 [] c = "2" -> 2 [] c = "3" -> 3

\* the strings of exactly n characters
RECURSIVE StringsOfLen(_)
StringsOfLen(n) ==
    IF n = 0 THEN {<<>>}
    ELSE {Append(s, c) : s \in StringsOfLen(n - 1), c \in Chars}

\* the strings of at most n characters
RECURSIVE StringsUpTo(_)
StringsUpTo(n) ==
    IF n = 0 THEN {<<>>} ELSE StringsOfLen(n) \cup StringsUpTo(n - 1)

Tokens == StringsUpTo(MaxTokLen)

\* str.split(":"): the pieces between the colons, at least one
RECURSIVE Split(_)
Split(s) ==
    IF \A i \in 1..Len(s) : s[i] # ":"
    THEN <<s>>
    ELSE LET i == CHOOSE j \in 1..Len(s) :
                      s[j] = ":" /\ \A m \in 1..(j - 1) : s[m] # ":"
         IN  <<SubSeq(s, 1, i - 1)>> \o Split(SubSeq(s, i + 1, Len(s)))

\* the value of a string of digits
RECURSIVE NatOf(_)
NatOf(s) ==
    IF Len(s) = 0 THEN 0
    ELSE 10 * NatOf(SubSeq(s, 1, Len(s) - 1)) + DigitVal(s[Len(s)])

AllDigits(s) == Len(s) >= 1 /\ \A i \in 1..Len(s) : s[i] \in Digits

\* whether int(s) succeeds (it raises ValueError otherwise)
IsInt(s) ==
    \/ AllDigits(s)
    \/ Len(s) >= 2 /\ s[1] = "-" /\ AllDigits(Tail(s))

\* int(s)
PyInt(s) == IF s[1] = "-" THEN 0 - NatOf(Tail(s)) ELSE NatOf(s)

\* [int(s) if s else None for s in arg.split(":")]
SliceArgs(arg) ==
    LET parts == Split(arg)
    IN  [i \in 1..Len(parts) |->
            IF parts[i] = <<>> THEN None ELSE Some(PyInt(parts[i]))]

\* the exception _slice(arg) raises, or "none": int() raises ValueError and
\* slice() of more than three arguments raises TypeError
SliceRaises(arg) ==
    LET parts == Split(arg)
    IN  IF \E i \in 1..Len(parts) : parts[i] # <<>> /\ ~IsInt(parts[i])
        THEN "ValueError"
        ELSE IF Len(parts) > 3 THEN "TypeError" ELSE "none"

\* slice(*bounds): one argument is the stop
PySlice(b) ==
    CASE Len(b) = 1 -> [start |-> None, stop |-> b[1], step |-> None]
      [] Len(b) = 2 -> [start |-> b[1], stop |-> b[2], step |-> None]
      [] Len(b) = 3 -> [start |-> b[1], stop |-> b[2], step |-> b[3]]

\* _slice without its second statement: a bare integer stays slice(None, stop)
SliceNoSingle(arg) == PySlice(SliceArgs(arg))

_slice(arg) ==
    LET slice_ == PySlice(SliceArgs(arg))
    IN  IF slice_.start = None /\ slice_.stop # None
        THEN [start |-> slice_.stop, stop |-> Some(Get(slice_.stop) + 1),
              step |-> None]
        ELSE slice_

\* slice.indices(length): <<start, stop, step>>, for a step that is not 0
SliceIndices(s, length) ==
    LET step  == IF s.step = None THEN 1 ELSE Get(s.step)
        neg   == step < 0
        lower == IF neg THEN 0 - 1 ELSE 0
        upper == IF neg THEN length - 1 ELSE length
        Clamp(v) ==
            IF v < 0
            THEN (IF v + length < lower THEN lower ELSE v + length)
            ELSE (IF v > upper THEN upper ELSE v)
        start == IF s.start = None
                 THEN (IF neg THEN upper ELSE lower)
                 ELSE Clamp(Get(s.start))
        stop  == IF s.stop = None
                 THEN (IF neg THEN lower ELSE upper)
                 ELSE Clamp(Get(s.stop))
    IN  <<start, stop, step>>

\* list(range(start, stop, step))
RECURSIVE Range(_, _, _)
Range(start, stop, step) ==
    IF (step > 0 /\ start >= stop) \/ (step < 0 /\ start <= stop)
    THEN <<>>
    ELSE <<start>> \o Range(start + step, stop, step)

\* slice.indices raises ValueError for a step of 0
ToIndicesRaises(slices) ==
    \E j \in 1..Len(slices) : slices[j].step = Some(0)

\* the members of a set of integers in ascending order
RECURSIVE Ascending(_)
Ascending(S) ==
    IF S = {} THEN <<>>
    ELSE LET m == CHOOSE x \in S : \A y \in S : x <= y
         IN  <<m>> \o Ascending(S \ {m})

\* a projection that merges the ranges: every selected index once, ascending
ToIndicesMerged(slices, fields) ==
    Ascending(UNION {
        LET r  == SliceIndices(slices[j], Len(fields))
            rg == Range(r[1], r[2], r[3])
        IN  {rg[k] : k \in 1..Len(rg)} : j \in 1..Len(slices)})

RECURSIVE to_indices(_, _)
to_indices(slices, fields) ==
    IF slices = <<>> THEN <<>>
    ELSE LET r == SliceIndices(Head(slices), Len(fields))
         IN  Range(r[1], r[2], r[3]) \o to_indices(Tail(slices), fields)

----------------------------------------------------------------------------
(* Input lines. *)

\* the field texts of the smoothing runs: two numbers, a text that is no
\* number, and an infinity
FieldTexts == {"10", "20", "x", "inf"}

\* the lines of exactly w fields, each as line.removesuffix("\n").split(delimiter)
\* returns it (a line always has at least one field)
RECURSIVE RowsOfWidth(_)
RowsOfWidth(w) ==
    IF w = 0 THEN {<<>>}
    ELSE {Append(r, f) : r \in RowsOfWidth(w - 1), f \in FieldTexts}

Rows == UNION {RowsOfWidth(w) : w \in 1..MaxWidth}

\* the lines of the selector runs: w fields "10"
SelRows == {[i \in 1..w |-> "10"] : w \in 1..MaxSelWidth}

to_float(field) ==
    CASE field = "10"  -> Fin(10, 1)
      [] field = "20"  -> Fin(20, 1)
      [] field = "inf" -> Inf(1)
      [] OTHER         -> NaN

----------------------------------------------------------------------------
(* The program. *)

VARIABLES
    args,          \* the command line: [fields: -f tokens, num: -n]
    optimize,      \* whether the interpreter runs with -O (asserts stripped)
    pc,            \* "start" (before argument handling), "loop", "exited"
    slices,        \* None until assigned
    n,             \* None until assigned
    avgs,          \* None, or Some(list of floats)
    fields,        \* the fields of the line read last
    indices,       \* what to_indices returned for it
    values,        \* its projected values
    line,          \* the output line built last: the floats that str renders
    nRead,         \* lines read from standard input
    nWritten,      \* lines written to standard output
    term,          \* "running", or how the process ended
    exitCode,      \* None, or Some(exit status)
    stderrClosed   \* whether sys.stderr.close() ran

\* plot: the App object, its reader thread and its UI update
VARIABLES
    options,       \* [fields: the -f slices, window: None or -w]
    lock,          \* self.lock: "free", or the thread that holds it
    series,        \* self.series: None, or Some(list of lists)
    plots,         \* self.plots: None, or Some(number of plot items)
    rpc,           \* where the reader thread is in App.read
    rline,         \* the line it read: its fields, projected from "stamp" on
    rindices,      \* the local indices of App.read: None until the first line
    rcol,          \* the i of its for loop over fields[1:]
    nLines,        \* lines the reader has read
    pending,       \* newData signals emitted and not yet delivered
    upc,           \* where the UI thread is in App._update
    ucut,          \* the i of del series[:i]
    ucol           \* lists the for loop of _update has trimmed

appVars == <<options, lock, series, plots, rpc, rline, rindices, rcol, nLines,
             pending, upc, ucut, ucol>>

vars == <<args, optimize, pc, slices, n, avgs, fields, indices, values, line,
          nRead, nWritten, term, exitCode, stderrClosed, appVars>>

\* App.__init__, before exec_ starts the reader
InitApp ==
    /\ lock = "free"
    /\ series = None
    /\ plots = None
    /\ rpc = "readline"
    /\ rline = None
    /\ rindices = None
    /\ rcol = 0
    /\ nLines = 0
    /\ pending = 0
    /\ upc = "idle"
    /\ ucut = 0
    /\ ucol = 0

\* the runs of iir: no App
NoApp ==
    /\ options = [fields |-> <<>>, window |-> None]
    /\ InitApp

\* the values of -n
NumValues == (0 - 1)..MaxNum

\* the -f token lists of the smoothing runs: none, "1:", and "-", which is
\* no selector
MainFieldArgs == {<<>>, << <<"1", ":">> >>, << <<"-">> >>}

InitProgram ==
    /\ pc = "start"
    /\ slices = None
    /\ n = None
    /\ avgs = None
    /\ fields = None
    /\ indices = None
    /\ values = None
    /\ line = None
    /\ nRead = 0
    /\ nWritten = 0
    /\ term = "running"
    /\ exitCode = None
    /\ stderrClosed = FALSE

Init ==
    /\ args \in [fields : MainFieldArgs, num : NumValues]
    /\ optimize \in BOOLEAN
    /\ InitProgram
    /\ NoApp

\* the selector runs: one token, window 1, asserts stripped as the shebang asks
InitSel ==
    /\ args \in [fields : {<<t>> : t \in Tokens}, num : {1}]
    /\ optimize = TRUE
    /\ InitProgram
    /\ NoApp

\* the tokens of the selector-list runs: two ranges that overlap, a bare
\* index, an open range, all fields, a negative index, and "-", which is no
\* selector
ListTokens ==
    {<<"0", ":", "2">>, <<"1", ":", "3">>, <<"1">>, <<"2", ":">>, <<":">>,
     <<"-", "2">>, <<"-">>}

\* the token lists of 1..k tokens (action="extend", nargs="+")
RECURSIVE TokenLists(_)
TokenLists(k) ==
    IF k = 0 THEN {}
    ELSE {<<t>> : t \in ListTokens}
             \cup {Append(l, t) : l \in TokenLists(k - 1), t \in ListTokens}

\* the selector-list runs: up to MaxTokens tokens, window 1, asserts stripped
InitList ==
    /\ args \in [fields : TokenLists(MaxTokens), num : {1}]
    /\ optimize = TRUE
    /\ InitProgram
    /\ NoApp

\* the process ends with this status
Exit(how, status) ==
    /\ pc' = "exited"
    /\ term' = how
    /\ exitCode' = Some(status)

\* the exit status of sys.exit(code): the interpreter flushes sys.stdout as it
\* exits, and a flush that fails turns the status into FlushFailedStatus
Finalize(code, flushFails) == IF flushFails THEN FlushFailedStatus ELSE code

\* args.fields or [slice(None)], each token converted by type=_slice
ParsedSlices ==
    IF args.fields = <<>>
    THEN <<[start |-> None, stop |-> None, step |-> None]>>
    ELSE [i \in 1..Len(args.fields) |-> _slice(args.fields[i])]

ArgsRaise == \E i \in 1..Len(args.fields) : SliceRaises(args.fields[i]) # "none"

\* argparse reports a token _slice rejects and exits with status 2
ParseArgsFails ==
    /\ pc = "start"
    /\ ArgsRaise
    /\ Exit("usage", 2)
    /\ UNCHANGED <<appVars, args, optimize, slices, n, avgs, fields, indices, values,
                   line, nRead, nWritten, stderrClosed>>

\* assert 1 <= num: the name num is not defined, so the assert, when it is
\* not stripped, raises NameError whatever -n is
AssertRaises ==
    /\ pc = "start"
    /\ ~ArgsRaise
    /\ ~optimize
    /\ Exit("NameError", 1)
    /\ slices' = Some(ParsedSlices)
    /\ n' = Some(args.num)
    /\ UNCHANGED <<appVars, args, optimize, avgs, fields, indices, values, line,
                   nRead, nWritten, stderrClosed>>

\* argument handling up to the loop, the assert stripped
Startup ==
    /\ pc = "start"
    /\ ~ArgsRaise
    /\ optimize
    /\ slices' = Some(ParsedSlices)
    /\ n' = Some(args.num)
    /\ pc' = "loop"
    /\ UNCHANGED <<appVars, args, optimize, avgs, fields, indices, values, line,
                   nRead, nWritten, term, exitCode, stderrClosed>>

\* an update that restarts from the new value when the average is NaN
EmaResetsNaN(avg, value, num) ==
    IF IsNaN(avg) THEN value
    ELSE FDivInt(FAdd(FSub(FMulInt(avg, num), avg), value), num)

\* an update that forgets to subtract the old average: ((avg * n) + value) / n
EmaNoSubtract(avg, value, num) ==
    FDivInt(FAdd(FMulInt(avg, num), value), num)

\* ((avgs[i] * n) - avgs[i] + values[i]) / n
Ema(avg, value, num) ==
    FDivInt(FAdd(FSub(FMulInt(avg, num), avg), value), num)

\* what the for loop over range(len(values)) raises, or "none": avgs[i] past
\* the end of avgs raises IndexError, a division by n = 0 ZeroDivisionError
EmaRaises(avgs0, vals, num) ==
    IF Len(vals) = 0 THEN "none"
    ELSE IF Len(avgs0) = 0 THEN "IndexError"
    ELSE IF num = 0 THEN "ZeroDivisionError"
    ELSE IF Len(vals) > Len(avgs0) THEN "IndexError"
    ELSE "none"

\* avgs when the for loop ends or raises: the positions it reached are updated
EmaLoop(avgs0, vals, num) ==
    [i \in 1..Len(avgs0) |->
        IF i <= Len(vals) /\ num # 0
        THEN Ema(avgs0[i], vals[i], num)
        ELSE avgs0[i]]

\* values = [to_float(fields[i]) for i in to_indices(slices, fields)]
Project(idx, row) == [j \in 1..Len(idx) |-> to_float(row[idx[j] + 1])]

\* avgs before the for loop: if avgs is None: avgs = list(values)
AvgsOr(vals) == IF avgs = None THEN vals ELSE Get(avgs)

\* what one pass of the loop body raises before it prints, or "none"
BodyRaises(row) ==
    IF ToIndicesRaises(Get(slices)) THEN "ValueError"
    ELSE LET vals == Project(to_indices(Get(slices), row), row)
         IN  EmaRaises(AvgsOr(vals), vals, Get(n))

\* the loop body up to the print, for a line that raises nothing in it
Body(row) ==
    LET idx  == to_indices(Get(slices), row)
        vals == Project(idx, row)
        new  == EmaLoop(AvgsOr(vals), vals, Get(n))
    IN  /\ fields' = Some(row)
        /\ indices' = Some(idx)
        /\ values' = Some(vals)
        /\ avgs' = Some(new)
        /\ line' = Some(new)
        /\ nRead' = nRead + 1

\* one line read, smoothed and printed
ProcessLine(row) ==
    /\ pc = "loop"
    /\ nRead < MaxLines
    /\ BodyRaises(row) = "none"
    /\ Body(row)
    /\ nWritten' = nWritten + 1
    /\ UNCHANGED <<appVars, args, optimize, pc, slices, n, term, exitCode, stderrClosed>>

\* one line read, and the body raises an exception nothing catches: the
\* interpreter prints the traceback and exits with status 1
ProcessLineRaises(row) ==
    /\ pc = "loop"
    /\ nRead < MaxLines
    /\ BodyRaises(row) # "none"
    /\ fields' = Some(row)
    /\ nRead' = nRead + 1
    /\ IF BodyRaises(row) = "ValueError"
       THEN UNCHANGED <<indices, values, avgs>>
       ELSE LET idx  == to_indices(Get(slices), row)
                vals == Project(idx, row)
            IN  /\ indices' = Some(idx)
                /\ values' = Some(vals)
                /\ avgs' = Some(EmaLoop(AvgsOr(vals), vals, Get(n)))
    /\ Exit(BodyRaises(row), 1)
    /\ UNCHANGED <<appVars, args, optimize, slices, n, line, nWritten, stderrClosed>>

\* one line read and smoothed, and print raises BrokenPipeError: the handler
\* closes sys.stderr and calls sys.exit(32); the line stays in the buffer of
\* sys.stdout, so the flush at exit fails too
BrokenPipe(row) ==
    /\ pc = "loop"
    /\ nRead < MaxLines
    /\ BodyRaises(row) = "none"
    /\ Body(row)
    /\ stderrClosed' = TRUE
    /\ Exit("EPIPE", Finalize(EPIPE, TRUE))
    /\ UNCHANGED <<appVars, args, optimize, slices, n, nWritten>>

\* SIGINT: the handler calls sys.exit()
Interrupt ==
    /\ pc \in {"start", "loop"}
    /\ Exit("SIGINT", Finalize(0, FALSE))
    /\ UNCHANGED <<appVars, args, optimize, slices, n, avgs, fields, indices, values,
                   line, nRead, nWritten, stderrClosed>>

\* standard input is exhausted: the for loop ends and so does the script
Eof ==
    /\ pc = "loop"
    /\ Exit("eof", Finalize(0, FALSE))
    /\ UNCHANGED <<appVars, args, optimize, slices, n, avgs, fields, indices, values,
                   line, nRead, nWritten, stderrClosed>>

Next ==
    \/ ParseArgsFails
    \/ AssertRaises
    \/ Startup
    \/ \E row \in Rows : ProcessLine(row)
    \/ \E row \in Rows : ProcessLineRaises(row)
    \/ \E row \in Rows : BrokenPipe(row)
    \/ Interrupt
    \/ Eof

Spec == Init /\ [][Next]_vars

NextSel ==
    \/ ParseArgsFails
    \/ Startup
    \/ \E row \in SelRows : ProcessLine(row)
    \/ \E row \in SelRows : ProcessLineRaises(row)

SpecSel == InitSel /\ [][NextSel]_vars

SpecList == InitList /\ [][NextSel]_vars

-----------------------------------------------------------------------------
(* plot: App.read in the reader thread and App._update in the UI thread. *)

\* most lines the reader reads
MaxPlotLines == 3
\* most fields on a line of plot's input
MaxPlotWidth == 2

\* the field texts the format of -t matches; "5" is a number and no
\* timestamp, "x" is neither
TimeTexts == {"T1", "T3"}

\* strptime(text, timefmt).timestamp() of a text the format matches, in
\* seconds
strptime(text) == IF text = "T1" THEN 1 ELSE 3

\* strptime raises ValueError for any other text
StrptimeRaises(text) == text \notin TimeTexts

\* float(field), and float("nan") on ValueError
PlotFloat(field) == IF field = "5" THEN Fin(5, 1) ELSE NaN

\* lines of w fields: a timestamp or "x", then numbers; or a timestamp,
\* then "x"
PlotRowsOfWidth(w) ==
    {[i \in 1..w |-> IF i = 1 THEN t ELSE "5"] : t \in TimeTexts \cup {"x"}}
        \cup {[i \in 1..w |-> IF i = 1 THEN "T1" ELSE "x"]}

PlotRows == UNION {PlotRowsOfWidth(w) : w \in 1..MaxPlotWidth}

\* the -f token lists of plot: none, "0", "1:"
PlotFieldArgs == {<<>>, << <<"0">> >>, << <<"1", ":">> >>}

\* the values of -w: none, and 0, 1, 2 and -1 seconds
PlotWindows == {None, Some(0), Some(1), Some(2), Some(0 - 1)}

\* self.options.fields or [slice(None)], each token converted by type=_slice
PlotSlices(tokens) ==
    IF tokens = <<>>
    THEN <<[start |-> None, stop |-> None, step |-> None]>>
    ELSE [i \in 1..Len(tokens) |-> _slice(tokens[i])]

InitPlot ==
    /\ options \in [fields : {PlotSlices(t) : t \in PlotFieldArgs},
                    window : PlotWindows]
    /\ InitApp
    /\ args = [fields |-> <<>>, num |-> 1]
    /\ optimize = TRUE
    /\ InitProgram

\* _indices of App.read
_indices(row) == to_indices(options.fields, row)

\* the list of lists with one more element at the end of list k (from 1)
AppendTo(lists, k, v) ==
    [j \in 1..Len(lists) |-> IF j = k THEN Append(lists[j], v) ELSE lists[j]]

\* the list of lists after del lists[k][:i]
DelPrefix(lists, k, i) ==
    [j \in 1..Len(lists) |->
        IF j = k THEN SubSeq(lists[j], Min(i, Len(lists[j])) + 1, Len(lists[j]))
        ELSE lists[j]]

\* f.readline() returns a line
ReadLine(row) ==
    /\ rpc = "readline"
    /\ nLines < MaxPlotLines
    /\ nLines' = nLines + 1
    /\ rline' = Some(row)
    /\ rpc' = "lock"
    /\ UNCHANGED <<options, lock, series, plots, rindices, rcol, pending,
                   upc, ucut, ucol>>
    /\ UNCHANGED <<args, optimize, pc, slices, n, avgs, fields, indices,
                   values, line, nRead, nWritten, term, exitCode,
                   stderrClosed>>

\* f.readline() returns "" at the end of the input, or raises ValueError
\* because standard input was closed: the loop ends
ReaderEof ==
    /\ rpc = "readline"
    /\ rpc' = "done"
    /\ UNCHANGED <<options, lock, series, plots, rline, rindices, rcol,
                   nLines, pending, upc, ucut, ucol>>
    /\ UNCHANGED <<args, optimize, pc, slices, n, avgs, fields, indices,
                   values, line, nRead, nWritten, term, exitCode,
                   stderrClosed>>

\* an App.read that goes on without the lock
ReaderSkipsLock ==
    /\ rpc = "lock"
    /\ rpc' = "project"
    /\ UNCHANGED <<options, lock, series, plots, rline, rindices, rcol,
                   nLines, pending, upc, ucut, ucol>>
    /\ UNCHANGED <<args, optimize, pc, slices, n, avgs, fields, indices,
                   values, line, nRead, nWritten, term, exitCode,
                   stderrClosed>>

\* with lock: the reader waits for the lock and takes it
ReaderLocks ==
    /\ rpc = "lock"
    /\ lock = "free"
    /\ lock' = "reader"
    /\ rpc' = "project"
    /\ UNCHANGED <<options, series, plots, rline, rindices, rcol, nLines,
                   pending, upc, ucut, ucol>>
    /\ UNCHANGED <<args, optimize, pc, slices, n, avgs, fields, indices,
                   values, line, nRead, nWritten, term, exitCode,
                   stderrClosed>>

\* the indices of this line: computed from the first line, then kept
LineIndices == IF rindices = None THEN _indices(Get(rline)) ELSE Get(rindices)

\* [fields[i] for i in indices] raises IndexError
ProjectRaises ==
    \E j \in 1..Len(LineIndices) : LineIndices[j] >= Len(Get(rline))

\* the exception leaves the with block, which releases the lock, and is
\* printed; the loop goes on
ReaderFails ==
    /\ lock' = "free"
    /\ rline' = None
    /\ rpc' = "readline"
    /\ UNCHANGED <<options, series, plots, rcol, nLines, pending, upc, ucut,
                   ucol>>
    /\ UNCHANGED <<args, optimize, pc, slices, n, avgs, fields, indices,
                   values, line, nRead, nWritten, term, exitCode,
                   stderrClosed>>

\* split, indices, and the projection raises IndexError
ReaderProjectRaises ==
    /\ rpc = "project"
    /\ ProjectRaises
    /\ rindices' = Some(LineIndices)
    /\ ReaderFails

\* split, indices, projection, and self.series created on the first line
ReaderProjects ==
    /\ rpc = "project"
    /\ ~ProjectRaises
    /\ rindices' = Some(LineIndices)
    /\ rline' = Some([j \in 1..Len(LineIndices) |->
                         Get(rline)[LineIndices[j] + 1]])
    /\ series' = IF series = None
                 THEN Some([j \in 1..Len(LineIndices) |-> <<>>])
                 ELSE series
    /\ rpc' = "stamp"
    /\ UNCHANGED <<options, lock, plots, rcol, nLines, pending, upc, ucut,
                   ucol>>
    /\ UNCHANGED <<args, optimize, pc, slices, n, avgs, fields, indices,
                   values, line, nRead, nWritten, term, exitCode,
                   stderrClosed>>

\* series[0] raises IndexError when no field is selected, or strptime
\* raises ValueError
StampRaises ==
    IF Len(Get(series)) = 0 THEN TRUE ELSE StrptimeRaises(Get(rline)[1])

ReaderStampRaises ==
    /\ rpc = "stamp"
    /\ StampRaises
    /\ UNCHANGED rindices
    /\ ReaderFails

\* series[0].append(strptime(fields[0], timefmt).timestamp())
ReaderStamps ==
    /\ rpc = "stamp"
    /\ ~StampRaises
    /\ series' = Some(AppendTo(Get(series), 1, strptime(Get(rline)[1])))
    /\ rcol' = 1
    /\ rpc' = "values"
    /\ UNCHANGED <<options, lock, plots, rline, rindices, nLines, pending,
                   upc, ucut, ucol>>
    /\ UNCHANGED <<args, optimize, pc, slices, n, avgs, fields, indices,
                   values, line, nRead, nWritten, term, exitCode,
                   stderrClosed>>

\* one pass of for i, field in enumerate(fields[1:], 1)
ReaderAppends ==
    /\ rpc = "values"
    /\ rcol < Len(Get(rline))
    /\ series' = Some(AppendTo(Get(series), rcol + 1,
                               PlotFloat(Get(rline)[rcol + 1])))
    /\ rcol' = rcol + 1
    /\ UNCHANGED <<options, lock, plots, rpc, rline, rindices, nLines,
                   pending, upc, ucut, ucol>>
    /\ UNCHANGED <<args, optimize, pc, slices, n, avgs, fields, indices,
                   values, line, nRead, nWritten, term, exitCode,
                   stderrClosed>>

\* the for loop is over: the with block releases the lock
ReaderReleases ==
    /\ rpc = "values"
    /\ rcol >= Len(Get(rline))
    /\ lock' = "free"
    /\ rline' = None
    /\ rcol' = 0
    /\ rpc' = "emit"
    /\ UNCHANGED <<options, series, plots, rindices, nLines, pending, upc,
                   ucut, ucol>>
    /\ UNCHANGED <<args, optimize, pc, slices, n, avgs, fields, indices,
                   values, line, nRead, nWritten, term, exitCode,
                   stderrClosed>>

\* newData.emit(): the signal is queued for the UI thread
ReaderEmits ==
    /\ rpc = "emit"
    /\ pending' = pending + 1
    /\ rpc' = "readline"
    /\ UNCHANGED <<options, lock, series, plots, rline, rindices, rcol,
                   nLines, upc, ucut, ucol>>
    /\ UNCHANGED <<args, optimize, pc, slices, n, avgs, fields, indices,
                   values, line, nRead, nWritten, term, exitCode,
                   stderrClosed>>

\* the UI thread delivers one newData to _update, which waits for the lock
UpdateStarts ==
    /\ upc = "idle"
    /\ pending > 0
    /\ pending' = pending - 1
    /\ upc' = IF series = None THEN "idle" ELSE "lock"
    /\ UNCHANGED <<options, lock, series, plots, rpc, rline, rindices, rcol,
                   nLines, ucut, ucol>>
    /\ UNCHANGED <<args, optimize, pc, slices, n, avgs, fields, indices,
                   values, line, nRead, nWritten, term, exitCode,
                   stderrClosed>>

\* with self.lock, and the plots made on the first update
UpdateLocks ==
    /\ upc = "lock"
    /\ lock = "free"
    /\ lock' = "ui"
    /\ plots' = IF plots = None
                THEN Some(IF Len(Get(series)) = 0 THEN 0
                          ELSE Len(Get(series)) - 1)
                ELSE plots
    /\ upc' = "window"
    /\ UNCHANGED <<options, series, rpc, rline, rindices, rcol, nLines,
                   pending, ucut, ucol>>
    /\ UNCHANGED <<args, optimize, pc, slices, n, avgs, fields, indices,
                   values, line, nRead, nWritten, term, exitCode,
                   stderrClosed>>

\* the i the loop over xs ends with: the first index whose timestamp is at
\* least xs[-1] - window, else the last index
Cut(xs, window) ==
    LET xmin == xs[Len(xs)] - window
        hits == {i \in 0..(Len(xs) - 1) : xs[i + 1] >= xmin}
    IN  IF hits = {} THEN Len(xs) - 1
        ELSE CHOOSE i \in hits : \A j \in hits : i <= j

\* if (window := self.options.window): a window that is not None and not 0
Windowed == options.window # None /\ Get(options.window) # 0

\* self.series[0][-1] raises IndexError
UpdateRaises ==
    IF Len(Get(series)) = 0 THEN TRUE ELSE Len(Get(series)[1]) = 0

\* the time reference, and the i of the window; an exception leaves the with
\* block and the slot
UpdateWindow ==
    /\ upc = "window"
    /\ IF UpdateRaises
       THEN /\ lock' = "free"
            /\ upc' = "idle"
            /\ UNCHANGED <<ucut, ucol>>
       ELSE IF Windowed
       THEN /\ ucut' = Cut(Get(series)[1], Get(options.window))
            /\ ucol' = 0
            /\ upc' = "trim"
            /\ UNCHANGED lock
       ELSE /\ upc' = "setData"
            /\ UNCHANGED <<lock, ucut, ucol>>
    /\ UNCHANGED <<options, series, plots, rpc, rline, rindices, rcol,
                   nLines, pending>>
    /\ UNCHANGED <<args, optimize, pc, slices, n, avgs, fields, indices,
                   values, line, nRead, nWritten, term, exitCode,
                   stderrClosed>>

\* one pass of for series in self.series: del series[:i]
UpdateTrims ==
    /\ upc = "trim"
    /\ ucol < Len(Get(series))
    /\ series' = Some(DelPrefix(Get(series), ucol + 1, ucut))
    /\ ucol' = ucol + 1
    /\ UNCHANGED <<options, lock, plots, rpc, rline, rindices, rcol, nLines,
                   pending, upc, ucut>>
    /\ UNCHANGED <<args, optimize, pc, slices, n, avgs, fields, indices,
                   values, line, nRead, nWritten, term, exitCode,
                   stderrClosed>>

\* windowChanged, setData for every plot, and the with block releases the
\* lock
UpdateReleases ==
    /\ \/ upc = "setData"
       \/ upc = "trim" /\ ucol >= Len(Get(series))
    /\ lock' = "free"
    /\ upc' = "idle"
    /\ ucol' = 0
    /\ UNCHANGED <<options, series, plots, rpc, rline, rindices, rcol,
                   nLines, pending, ucut>>
    /\ UNCHANGED <<args, optimize, pc, slices, n, avgs, fields, indices,
                   values, line, nRead, nWritten, term, exitCode,
                   stderrClosed>>

NextPlot ==
    \/ \E row \in PlotRows : ReadLine(row)
    \/ ReaderEof
    \/ ReaderLocks
    \/ ReaderProjectRaises
    \/ ReaderProjects
    \/ ReaderStampRaises
    \/ ReaderStamps
    \/ ReaderAppends
    \/ ReaderReleases
    \/ ReaderEmits
    \/ UpdateStarts
    \/ UpdateLocks
    \/ UpdateWindow
    \/ UpdateTrims
    \/ UpdateReleases

SpecPlot == InitPlot /\ [][NextPlot]_vars

----------------------------------------------------------------------------
(* Properties. *)

\* this step read a line
ReadsLine == nRead' = nRead + 1
\* this step wrote a line
WritesLine == nWritten' = nWritten + 1

\* the only -f token of a selector run
Token == args.fields[1]
\* the indices 0-based from a up to b - 1
Upto(a, b) == [j \in 1..(IF b > a THEN b - a ELSE 0) |-> a + j - 1]

(* C1: a bare non-negative integer token "i", resolved against a line of w
   fields with 0 <= i < w, yields the one index i; the token "i:" yields the
   indices i, i + 1, ..., w - 1. *)
C1_BareAndOpenEnded ==
    indices # None =>
        LET w     == Len(Get(fields))
            front == SubSeq(Token, 1, Len(Token) - 1)
        IN  /\ (AllDigits(Token) /\ NatOf(Token) < w)
                   => Get(indices) = <<NatOf(Token)>>
            /\ (Len(Token) >= 2 /\ Token[Len(Token)] = ":" /\ AllDigits(front)
                    /\ NatOf(front) < w)
                   => Get(indices) = Upto(NatOf(front), w)

\* "1" on a line of five fields gave [1]
C1_Witness ==
    /\ Token = <<"1">>
    /\ fields # None /\ Len(Get(fields)) = 5
    /\ indices = Some(<<1>>)

(* C2: the bare negative token "-1", resolved against a line of w >= 1
   fields, yields exactly the last field: the one index w - 1. *)
C2_LastField ==
    (indices # None /\ Token = <<"-", "1">>)
        => Get(indices) = <<Len(Get(fields)) - 1>>

(* C3: the token ":b" (no start, stop b >= 0) denotes [0, b): resolved
   against a line of w fields it yields 0, 1, ..., min(b, w) - 1, which is
   not what the bare token "b" yields. *)
C3_StopOnly ==
    (indices # None /\ Len(Token) >= 2 /\ Token[1] = ":" /\ AllDigits(Tail(Token)))
        => LET b == NatOf(Tail(Token))
               w == Len(Get(fields))
           IN  /\ Get(indices) = Upto(0, Min(b, w))
               /\ Get(indices) # to_indices(<<_slice(Tail(Token))>>, Get(fields))

\* column i of the accumulators is NaN
Poisoned(a, i) == a # None /\ i <= Len(Get(a)) /\ IsNaN(Get(a)[i])

(* C4: for a window N >= 1, once a line contributes NaN at projected column
   i, every later output line carries NaN at column i whatever the later
   values are: the line that contributes it is printed with NaN at i and
   leaves the accumulator NaN, and a NaN accumulator stays NaN and is printed
   as NaN by every line after it. *)
C4_NaNPoisoning ==
    [][\A i \in 1..MaxWidth :
         LET contributes ==
                 /\ ReadsLine
                 /\ values' # None /\ i <= Len(Get(values'))
                 /\ IsNaN(Get(values')[i])
                 /\ avgs' # None /\ i <= Len(Get(avgs'))
         IN  (args.num >= 1 /\ (Poisoned(avgs, i) \/ contributes))
                 => /\ Poisoned(avgs', i)
                    /\ WritesLine => IsNaN(Get(line')[i])]_vars

\* a second line with a valid value in a column the first line poisoned
C4_Witness ==
    /\ args.num = 2
    /\ nWritten = 2
    /\ IsFinite(Get(values)[1])
    /\ IsNaN(Get(line)[1])

(* C5 as stated, on the lines whose value is a number: with window N = 1,
   after every processed line, each accumulator whose latest input value is a
   finite number equals that value. *)
C5_LatestValue ==
    (n = Some(1) /\ pc = "loop" /\ values # None)
        => \A i \in 1..Len(Get(values)) :
               IsFinite(Get(values)[i]) => Get(avgs)[i] = Get(values)[i]

(* C5 amended: with window N = 1, a line that is printed sets every
   accumulator it covers, and the column it prints, to the line's value at
   that position provided the accumulator was finite before the update (on
   the first line the accumulator is the line's own value); the accumulators
   past a shorter line's width keep their value. *)
C5_LatestValueWhileFinite ==
    [][(args.num = 1 /\ WritesLine) =>
         \A i \in 1..Len(Get(avgs')) :
             IF i <= Len(Get(values'))
             THEN LET before == IF avgs = None THEN Get(values')[i]
                                ELSE Get(avgs)[i]
                  IN  IsFinite(before) =>
                          /\ Get(avgs')[i] = Get(values')[i]
                          /\ Get(line')[i] = Get(values')[i]
             ELSE Get(avgs')[i] = Get(avgs)[i]]_vars

\* window 1: the second line's 20 replaced the first line's value
C5_Witness ==
    /\ args.num = 1
    /\ nWritten = 2
    /\ Get(values)[1] = Fin(20, 1)
    /\ Get(avgs)[1] = Fin(20, 1)
    /\ Get(line)[1] = Fin(20, 1)

(* C6: for lines of constant width and a window N >= 1 the output is the
   reference sequence: the first line's values copied verbatim, and after it
   a_k = ((a_{k-1} * N) - a_{k-1} + v_k) / N. *)
C6_ReferenceSequence ==
    [][(args.num >= 1 /\ WritesLine
            /\ (avgs = None \/ Len(Get(values')) = Len(Get(avgs))))
         => Get(line') =
                IF avgs = None THEN Get(values')
                ELSE [i \in 1..Len(Get(avgs)) |->
                         Ema(Get(avgs)[i], Get(values')[i], args.num)]]_vars

(* C7: one output line per input line: after k lines are read, k lines are
   written, unless an interrupt or a broken pipe ended the process (for a
   window N >= 1). *)
C7_OneLinePerLine ==
    (args.num >= 1 /\ term \notin {"SIGINT", "EPIPE"}) => nWritten = nRead

(* C8: when a later line's projected field count differs from the number of
   accumulators, the update is applied positionally up to the shorter of the
   two and the process does not crash: it goes on with the next line (for a
   window N >= 1). *)
C8_DriftRecoverable ==
    [][(args.num >= 1 /\ ReadsLine /\ avgs # None /\ values' # None
            /\ Len(Get(values')) # Len(Get(avgs)))
         => /\ term' \in {"running", "EPIPE"}
            /\ avgs' = Some([i \in 1..Len(Get(avgs)) |->
                                IF i <= Len(Get(values'))
                                THEN Ema(Get(avgs)[i], Get(values')[i], args.num)
                                ELSE Get(avgs)[i]])]_vars

(* C9: a window below 1 is fatal at startup: the process ends with a
   non-zero status before a line is read or written; every window N >= 1
   passes the validation. *)
C9_WindowValidated ==
    /\ (args.num < 1 /\ term # "SIGINT")
           => /\ pc # "loop"
              /\ nRead = 0 /\ nWritten = 0
              /\ pc = "exited" => Get(exitCode) # 0
    /\ args.num >= 1 => term # "NameError"

(* C10: when a write hits a closed pipe the process ends with exit status 32
   after closing standard error, and reads and writes no line after that
   (for a window N >= 1). *)
C10_BrokenPipeExit ==
    (args.num >= 1 /\ term = "EPIPE")
        => /\ pc = "exited"
           /\ stderrClosed
           /\ exitCode = Some(EPIPE)

\* what one token alone resolves to on a line
Alone(tok, row) == to_indices(<<_slice(tok)>>, row)

\* the concatenation of the sequences of a sequence
RECURSIVE Concat(_)
Concat(ss) == IF ss = <<>> THEN <<>> ELSE Head(ss) \o Concat(Tail(ss))

(* C11: several selector tokens are an ordered list of ranges, neither merged
   nor deduplicated: for every line the projected index list is the
   concatenation, in the order of the tokens, of what each token resolves to
   on its own ("0:2" then "1:3" on five fields gives [0, 1, 1, 2]), and a
   line as wide as the line before it resolves to the same list. *)
C11_OrderedConcatenation ==
    [][(ReadsLine /\ indices' # None) =>
         /\ Get(indices') =
                Concat([j \in 1..Len(args.fields) |->
                           Alone(args.fields[j], Get(fields'))])
         /\ (args.fields = <<<<"0", ":", "2">>, <<"1", ":", "3">>>>
                 /\ Len(Get(fields')) = 5)
                => Get(indices') = <<0, 1, 1, 2>>
         /\ (indices # None /\ Len(Get(fields')) = Len(Get(fields)))
                => indices' = indices]_vars

\* "0:2" then "1:3" on two lines of five fields gave [0, 1, 1, 2] both times
C11_Witness ==
    /\ args.fields = <<<<"0", ":", "2">>, <<"1", ":", "3">>>>
    /\ nRead = 2
    /\ Len(Get(fields)) = 5
    /\ indices = Some(<<0, 1, 1, 2>>)

\* the lengths of the lists of self.series
Lengths == [k \in 1..Len(Get(series)) |-> Len(Get(series)[k])]

\* all lists of self.series are as long as each other
SameLength ==
    series # None => \A j, k \in 1..Len(Lengths) : Lengths[j] = Lengths[k]

\* the reader is past the timestamp: the lists it has appended to are one
\* longer than the others
OneAppended ==
    \A k \in 1..Len(Lengths) :
        Lengths[k] = Lengths[1] - 1 + (IF k <= rcol THEN 1 ELSE 0)

\* the update is trimming: the lists it has trimmed are ucut shorter than
\* the others, and ucut leaves at least one sample
SamePrefix ==
    /\ \A j, k \in 1..Len(Lengths) :
           Lengths[j] + (IF j <= ucol THEN ucut ELSE 0)
               = Lengths[k] + (IF k <= ucol THEN ucut ELSE 0)
    /\ \A k \in 1..Len(Lengths) : Lengths[k] >= 1

\* a line that fails: holding the lock, the reader goes back to readline
LineFails == rpc \in {"project", "stamp"} /\ rpc' = "readline"

\* the newest sample of every list
Newest == [k \in 1..Len(Lengths) |-> Get(series)[k][Lengths[k]]]

\* what a step does to the lists
C12_Steps ==
    /\ LineFails => series' = series
    /\ (rpc = "project" /\ rpc' = "stamp") => \A k \in 1..Len(Lengths') :
           Lengths'[k] = IF series = None THEN 0 ELSE Lengths[k]
    /\ (rpc = "stamp" /\ rpc' = "values") =>
           Lengths' = [Lengths EXCEPT ![1] = @ + 1]
    /\ (rpc = "values" /\ rcol' = rcol + 1) =>
           Lengths' = [Lengths EXCEPT ![rcol + 1] = @ + 1]
    /\ (upc = "trim" /\ ucol' = ucol + 1) =>
           /\ Lengths' = [Lengths EXCEPT ![ucol + 1] = @ - ucut]
           /\ Newest' = Newest
    /\ (lock = "free" /\ lock' = "free") => series' = series

(* C12: under every interleaving of App.read and App._update, whenever the
   lock is not held all lists of self.series have the same length: a line
   that fails (timestamp that does not parse, too few fields) appends to
   none of them, a line that succeeds appends exactly one element to each,
   and the window deletes the same prefix from each and keeps at least the
   newest sample. *)
C12_SameLengthUnlocked ==
    /\ [](/\ lock = "free" => SameLength
          /\ rpc \in {"project", "stamp"} => SameLength
          /\ rpc = "values" => OneAppended
          /\ upc = "trim" => SamePrefix)
    /\ [][C12_Steps]_vars

\* two lines were appended to both lists while updates ran, the window cut
\* the older sample from both, and the lock is free
C12_Witness ==
    /\ lock = "free"
    /\ nLines = 2
    /\ rpc = "readline"
    /\ upc = "idle"
    /\ pending = 0
    /\ ucut = 1
    /\ series = Some(<< <<3>>, <<Fin(5, 1)>> >>)

====
